---- MODULE Spec2Model ----
(***************************************************************************)
(* Variant Intelligence Aggregator (app.py): the query construction, the   *)
(* two source fetchers, the Gemini fallback summarizer and the two-phase   *)
(* fetch-then-summarize run driven by the "Search All Variants" button.    *)
(*                                                                         *)
(* Strings are sequences of characters; a character is a string token.     *)
(* Four specifications share the module:                                   *)
(*   Spec           the search runs of one session (main flow, line 271..) *)
(*   SpecJsonErrorsCaught  the same with requests 2.27 or later, where a   *)
(*                  body that is not JSON raises an exception the fetchers *)
(*                  catch                                                  *)
(*   SpecSummarize  one call of summarize_with_gemini, attempt by attempt  *)
(*   SpecQuery      the two places that build a query string               *)
(***************************************************************************)
EXTENDS Integers, Sequences, FiniteSets, TLC

VARIABLES
    \* ---- the query builder's inputs and outputs (SpecQuery)
    query_template,      \* st.session_state.query_template
    variant_input,       \* one text box of st.session_state.variants, as typed
    tumor_input,         \* st.session_state.tumor_type, as typed
    tavily_query,        \* the string submitted to fetch_from_tavily_headless
    perplexity_query,    \* full_query of the quick-link loop
    \* ---- one call of summarize_with_gemini (SpecSummarize)
    available_models,    \* the argument available_models
    s_pc,                \* "outer" (line 174), "dynamic" (line 189), "returned"
    model_idx,           \* position of the outer loop in models_to_try
    dynamic_models,      \* the list built at line 188
    dynamic_idx,         \* position of the inner loop in dynamic_models
    warnings,            \* the local list warnings
    last_error,          \* the local last_error
    attempts,            \* every generate_content call made, in order
    summary_out,         \* the returned dict
    \* ---- the search runs of one session (Spec)
    active_variants,     \* line 272
    include_tavily,      \* st.session_state.include_tavily
    include_oncokb,      \* st.session_state.include_oncokb
    oncokb_token,        \* whether ONCOKB_API_TOKEN is set (line 35)
    cache,               \* st.session_state.cache (line 48)
    run,                 \* how many times the search button was pressed
    source,              \* the tab being filled: "tavily", then "oncokb"
    pc,                  \* where the main thread is in the run
    fetch_tasks,         \* the futures of future_to_variant, in submission order
    search_results,      \* the dict search_results
    summary_tasks,       \* the futures of summary_futures, in submission order
    displayed,           \* the records rendered in the tab being filled, top to bottom
    fetcher_calls        \* per run, how often fetch_from_tavily_headless got each query

qVars == <<query_template, variant_input, tumor_input, tavily_query, perplexity_query>>

sVars == <<available_models, s_pc, model_idx, dynamic_models, dynamic_idx,
           warnings, last_error, attempts, summary_out>>

oVars == <<active_variants, include_tavily, include_oncokb, oncokb_token, cache, run,
           source, pc, fetch_tasks, search_results, summary_tasks, displayed,
           fetcher_calls>>

vars == <<qVars, sVars, oVars>>

None == "None"

\* ------------------------------------------------------------------ bounds

\* longest template, variant and tumor-type text drawn as input
MaxLen == 2

\* ----------------------------------------------------------------- strings

SeqsUpTo(S, n) == UNION {[1..k -> S] : k \in 0..n}

IsSpace(c) == c = " "

RECURSIVE LStrip(_)
LStrip(s) ==
    IF s # <<>> /\ IsSpace(Head(s)) THEN LStrip(Tail(s)) ELSE s

RECURSIVE RStrip(_)
RStrip(s) ==
    IF s # <<>> /\ IsSpace(s[Len(s)]) THEN RStrip(SubSeq(s, 1, Len(s) - 1)) ELSE s

\* str.strip()
Strip(s) == RStrip(LStrip(s))

Placeholder == "{variant}"

\* query_template.format(variant=v): every placeholder replaced by v
RECURSIVE Format(_, _)
Format(template, v) ==
    IF template = <<>> THEN <<>>
    ELSE (IF Head(template) = Placeholder THEN v ELSE <<Head(template)>>)
         \o Format(Tail(template), v)

InWord == <<"i", "n", " ">>

\* line 315: f"{query_template.format(variant=v)} {'in ' + tumor_type if tumor_type else ''}"
TavilyQuery(template, v, tumor_type) ==
    Format(template, v) \o <<" ">> \o (IF tumor_type # <<>> THEN InWord \o tumor_type ELSE <<>>)

\* lines 304-305: base_query, then f"{base_query} in {tumor_type}" if tumor_type else base_query
PerplexityQuery(template, v, tumor_type) ==
    LET base_query == Format(template, v)
    IN  IF tumor_type # <<>> THEN base_query \o <<" ">> \o InWord \o tumor_type ELSE base_query

\* ------------------------------------------------------------- SpecQuery

TemplateChars == {"a", " ", Placeholder}
VariantChars == {"B", " "}
TumorChars == {"m", " "}

\* line 272: a text box counts as an active variant when it is non-blank after strip
ActiveVariant(raw) == Strip(raw)

\* line 291
TumorType(raw) == Strip(raw)

QInit ==
    /\ query_template \in SeqsUpTo(TemplateChars, MaxLen)
    /\ variant_input \in {r \in SeqsUpTo(VariantChars, MaxLen) : Strip(r) # <<>>}
    /\ tumor_input \in SeqsUpTo(TumorChars, MaxLen)
    /\ tavily_query = None
    /\ perplexity_query = None

QIdle ==
    /\ query_template = <<>>
    /\ variant_input = <<>>
    /\ tumor_input = <<>>
    /\ tavily_query = None
    /\ perplexity_query = None

\* line 315, for one active variant
BuildTavilyQuery ==
    /\ tavily_query = None
    /\ tavily_query' = TavilyQuery(query_template, ActiveVariant(variant_input),
                                   TumorType(tumor_input))
    /\ UNCHANGED <<query_template, variant_input, tumor_input, perplexity_query>>
    /\ UNCHANGED <<sVars, oVars>>

\* lines 303-306, for one active variant
BuildPerplexityQuery ==
    /\ perplexity_query = None
    /\ perplexity_query' = PerplexityQuery(query_template, ActiveVariant(variant_input),
                                           TumorType(tumor_input))
    /\ UNCHANGED <<query_template, variant_input, tumor_input, tavily_query>>
    /\ UNCHANGED <<sVars, oVars>>

\* ------------------------------------------------------ the source fetchers

\* most variants entered in one search
MaxVariants == 2

\* most presses of the search button in one session
MaxRuns == 2

BRAF == <<"BRAF", " ", "V600E">>
EGFR == <<"EGFR", " ", "L858R">>
TP53 == <<"TP53">>

\* what a text box can hold once stripped: two "GENE ALTERATION" pairs, one bare gene
Variants == {BRAF, EGFR, TP53}

\* line 50
DefaultTemplate == <<"clinical significance of genetic variant ", Placeholder>>

\* a fetcher's return value: a dict with an "error" key (tag "error"), any other
\* parsed JSON body (tag "payload", shape saying what the body holds; "error_body"
\* is the body of a non-2xx answer), or an exception leaving the function
\* (tag "raised"); q is the request it answers
Result(tag, shape, q) == [tag |-> tag, shape |-> shape, q |-> q]

NoResult == Result("none", "none", <<>>)

\* the default of search_results.get(v, {})
EmptyDict == Result("payload", "empty", <<>>)

\* what the HTTP exchange of one Tavily call does
TavilyEnv == {"connection_error", "http_error", "not_json", "json_results", "json_other"}

\* lines 110-119. A 200 answer whose body is not JSON makes response.json()
\* raise: a RequestException subclass with requests >= 2.27 (caught, line 118),
\* a plain ValueError before (not caught); the repository pins no version.
FetchTavilyOutcomes(query, env) ==
    CASE env \in {"connection_error", "http_error"} ->
            {Result("error", "message", query)}
      [] env = "not_json" ->
            {Result("error", "message", query), Result("raised", "none", query)}
      [] env = "json_results" -> {Result("payload", "results", query)}
      [] env = "json_other" -> {Result("payload", "malformed", query)}

\* what the HTTP exchange of one OncoKB call does
OncokbEnv == {"connection_error", "http_error_json_with_error_key", "http_error_json",
              "http_error_not_json", "not_json", "json_unknown", "json_annotated",
              "json_other"}

\* lines 121-144; the token is checked first (line 122)
FetchOncokbOutcomes(request, env, token) ==
    IF ~token THEN {Result("error", "message", request)}
    ELSE CASE env = "connection_error" -> {Result("error", "message", request)}
           [] env = "http_error_json_with_error_key" ->
                 {Result("error", "message", request)}
           [] env = "http_error_json" -> {Result("payload", "error_body", request)}
           [] env = "http_error_not_json" -> {Result("error", "message", request)}
           [] env = "not_json" ->
                 {Result("error", "message", request),
                  Result("raised", "none", request)}
           [] env = "json_unknown" -> {Result("payload", "unknown", request)}
           [] env = "json_annotated" -> {Result("payload", "annotated", request)}
           [] env = "json_other" -> {Result("payload", "malformed", request)}

\* --------------------------------------------------------- processing logic

\* what summarize_with_gemini hands back: the first model's text (line 179) or,
\* both preferred models failing, the failure text and their warnings (line 206)
SummarizeOutcomes ==
    {[summary |-> "text", warnings |-> <<>>],
     [summary |-> "Unable to generate summary.",
      warnings |-> <<"gemini-1.5-flash-latest failed", "gemini-pro failed">>]}

Record(variant, summary, warns, gen, sr) ==
    [raised |-> FALSE, variant |-> variant, summary |-> summary, warnings |-> warns,
     gen_called |-> gen, content_of |-> sr.q, data |-> sr.shape]

Raised == [raised |-> TRUE, variant |-> <<>>, summary |-> "", warnings |-> <<>>,
           gen_called |-> FALSE, content_of |-> <<>>, data |-> "none"]

\* lines 210-219; a body that is no dict of result dicts makes .get raise
process_tavily_search(variant, search_result, outcome) ==
    IF search_result.tag = "error"
    THEN Record(variant, "Error during search", <<>>, FALSE, search_result)
    ELSE IF search_result.shape = "malformed" THEN Raised
    ELSE Record(variant, outcome.summary, outcome.warnings, TRUE, search_result)

process_oncokb_search_no_sentinel(variant_gene, variant_alt, search_result, outcome) ==
    IF search_result.tag = "error"
    THEN Record(variant_gene \o <<" ">> \o variant_alt, "OncoKB API Error", <<>>, FALSE,
                search_result)
    ELSE IF search_result.shape = "malformed" THEN Raised
    ELSE Record(variant_gene \o <<" ">> \o variant_alt, outcome.summary, outcome.warnings,
                TRUE, search_result)

\* lines 221-267; a treatment without drugName or with a null level makes the
\* prompt construction raise
process_oncokb_search(variant_gene, variant_alt, search_result, outcome) ==
    IF search_result.tag = "error"
    THEN Record(variant_gene \o <<" ">> \o variant_alt, "OncoKB API Error", <<>>, FALSE,
                search_result)
    ELSE IF search_result.shape = "unknown"
    THEN Record(variant_gene \o <<" ">> \o variant_alt, "Variant not found in OncoKB.", <<>>,
                FALSE, search_result)
    ELSE IF search_result.shape = "malformed" THEN Raised
    ELSE Record(variant_gene \o <<" ">> \o variant_alt, outcome.summary, outcome.warnings,
                TRUE, search_result)

\* ------------------------------------------------------ main application flow

\* position of the first space, 0 when there is none
FirstSpace(v) ==
    IF \E i \in 1..Len(v) : v[i] = " "
    THEN CHOOSE i \in 1..Len(v) : v[i] = " " /\ \A j \in 1..(i - 1) : v[j] # " "
    ELSE 0

\* lines 336-340: v.split(' ', 1) gives two parts exactly when v holds a space
Parsed(v) ==
    LET k == FirstSpace(v)
    IN  [gene |-> SubSeq(v, 1, k - 1), alt |-> SubSeq(v, k + 1, Len(v)), original |-> v]

ParsedVariants(vs) ==
    LET two(v) == FirstSpace(v) > 0 IN SelectSeq(vs, two)

\* the request a fetch task is submitted with (lines 315 and 342)
RequestOf(src, v) ==
    IF src = "tavily" THEN TavilyQuery(query_template, v, TumorType(tumor_input))
    ELSE <<Parsed(v).gene, Parsed(v).alt, TumorType(tumor_input)>>

TavilyQueries == {TavilyQuery(DefaultTemplate, v, <<>>) : v \in Variants}

NoCalls == [q \in TavilyQueries |-> 0]

Pending(tasks) == {i \in 1..Len(tasks) : tasks[i].st = "pending"}

OIdle ==
    /\ active_variants = <<>>
    /\ include_tavily = FALSE
    /\ include_oncokb = FALSE
    /\ oncokb_token = FALSE
    /\ cache = <<>>
    /\ run = 0
    /\ source = "none"
    /\ pc = "off"
    /\ fetch_tasks = <<>>
    /\ search_results = <<>>
    /\ summary_tasks = <<>>
    /\ displayed = <<>>
    /\ fetcher_calls = <<>>

\* lines 44-60, with the variants typed in and the sources ticked
OInit ==
    /\ active_variants \in (SeqsUpTo(Variants, MaxVariants) \ {<<>>})
    /\ include_tavily \in BOOLEAN
    /\ include_oncokb \in BOOLEAN
    /\ include_tavily \/ include_oncokb
    /\ oncokb_token \in BOOLEAN
    /\ cache = <<>>
    /\ run = 0
    /\ source = "none"
    /\ pc = "idle"
    /\ fetch_tasks = <<>>
    /\ search_results = <<>>
    /\ summary_tasks = <<>>
    /\ displayed = <<>>
    /\ fetcher_calls = <<>>
    /\ query_template = DefaultTemplate
    /\ variant_input = <<>>
    /\ tumor_input = <<>>
    /\ tavily_query = None
    /\ perplexity_query = None

\* lines 271-298: the button is pressed; the script runs from the top, so the
\* previous run's executor has been left and all its tasks are over
StartRun ==
    /\ pc \in {"idle", "done", "aborted"}
    /\ run < MaxRuns
    /\ Pending(fetch_tasks) = {} /\ Pending(summary_tasks) = {}
    /\ run' = run + 1
    /\ source' = "none"
    /\ pc' = "open_tavily"
    /\ fetch_tasks' = <<>>
    /\ search_results' = <<>>
    /\ summary_tasks' = <<>>
    /\ displayed' = <<>>
    /\ fetcher_calls' = Append(fetcher_calls, NoCalls)
    /\ UNCHANGED <<active_variants, include_tavily, include_oncokb, oncokb_token, cache>>
    /\ UNCHANGED <<qVars, sVars>>

\* lines 311 and 329-333: does this run query the source at all
Queried(src) ==
    IF src = "tavily" THEN include_tavily ELSE include_oncokb /\ oncokb_token

\* the variants a source is asked about (line 315; lines 336-342)
Submitted(src) ==
    IF src = "tavily" THEN active_variants ELSE ParsedVariants(active_variants)

\* lines 311-315 and 329-342: open the source's tab and submit one fetch per
\* variant; a source not ticked, or OncoKB without a token, is passed over
SubmitFetches(src) ==
    /\ pc = (IF src = "tavily" THEN "open_tavily" ELSE "open_oncokb")
    /\ source' = src
    /\ displayed' = <<>>
    /\ search_results' = <<>>
    /\ summary_tasks' = <<>>
    /\ IF Queried(src)
       THEN /\ fetch_tasks' = [i \in 1..Len(Submitted(src)) |->
                                  [v |-> Submitted(src)[i], st |-> "pending",
                                   res |-> NoResult]]
            /\ pc' = "fetch"
       ELSE /\ fetch_tasks' = <<>>
            /\ pc' = "tab_over"
    /\ UNCHANGED <<active_variants, include_tavily, include_oncokb, oncokb_token, cache,
                   run, fetcher_calls>>
    /\ UNCHANGED <<qVars, sVars>>

\* a worker thread runs fetch_from_tavily_headless (line 315)
RunTavilyFetch(i, env) ==
    /\ source = "tavily"
    /\ i \in Pending(fetch_tasks)
    /\ LET query == RequestOf("tavily", fetch_tasks[i].v)
       IN  /\ \E res \in FetchTavilyOutcomes(query, env) :
                 fetch_tasks' = [fetch_tasks EXCEPT ![i].st = "done", ![i].res = res]
           /\ fetcher_calls' = [fetcher_calls EXCEPT ![run][query] = @ + 1]
    /\ UNCHANGED <<active_variants, include_tavily, include_oncokb, oncokb_token, cache,
                   run, source, pc, search_results, summary_tasks, displayed>>
    /\ UNCHANGED <<qVars, sVars>>

\* a worker thread runs fetch_from_oncokb_headless (line 342)
RunOncokbFetch(i, env) ==
    /\ source = "oncokb"
    /\ i \in Pending(fetch_tasks)
    /\ \E res \in FetchOncokbOutcomes(RequestOf("oncokb", fetch_tasks[i].v), env,
                                      oncokb_token) :
          fetch_tasks' = [fetch_tasks EXCEPT ![i].st = "done", ![i].res = res]
    /\ UNCHANGED <<active_variants, include_tavily, include_oncokb, oncokb_token, cache,
                   run, source, pc, search_results, summary_tasks, displayed,
                   fetcher_calls>>
    /\ UNCHANGED <<qVars, sVars>>

AllFetchesDoneOrNot == TRUE

\* line 316 / 343: as_completed hands out every future, so the comprehension
\* ends when all fetches are over
AllFetchesDone == Pending(fetch_tasks) = {}

\* the dicts line 316 / 343 can build: one entry per variant, a repeated
\* variant keeping the result of whichever of its futures came last
SearchResultDicts ==
    LET done == {i \in 1..Len(fetch_tasks) : fetch_tasks[i].st = "done"}
        keys == {fetch_tasks[i].v : i \in done}
    IN  {d \in [keys -> {fetch_tasks[i].res : i \in done}] :
            \A k \in keys : \E i \in done : fetch_tasks[i].v = k /\ fetch_tasks[i].res = d[k]}

\* search_results.get(v, {}) (lines 319 and 346)
SearchResultOf(d, v) == IF v \in DOMAIN d THEN d[v] ELSE EmptyDict

\* lines 316-319 / 343-346: collect the fetch results, then submit one
\* processing task per variant; future.result() re-raises what a fetch raised
CollectFetches ==
    /\ pc = "fetch"
    /\ AllFetchesDone
    /\ IF \E i \in 1..Len(fetch_tasks) : fetch_tasks[i].res.tag = "raised"
       THEN /\ pc' = "aborted"
            /\ UNCHANGED <<search_results, summary_tasks>>
       ELSE /\ \E d \in SearchResultDicts :
                 /\ search_results' = d
                 /\ summary_tasks' = [i \in 1..Len(fetch_tasks) |->
                                         [v |-> fetch_tasks[i].v,
                                          arg |-> SearchResultOf(d, fetch_tasks[i].v),
                                          st |-> "pending", res |-> Raised]]
            /\ pc' = "summarize"
    /\ UNCHANGED <<active_variants, include_tavily, include_oncokb, oncokb_token, cache,
                   run, source, fetch_tasks, displayed, fetcher_calls>>
    /\ UNCHANGED <<qVars, sVars>>

\* a worker thread runs process_tavily_search or process_oncokb_search
RunProcess(i, outcome) ==
    /\ i \in Pending(summary_tasks)
    /\ LET t == summary_tasks[i]
           res == IF source = "tavily" THEN process_tavily_search(t.v, t.arg, outcome)
                  ELSE process_oncokb_search(Parsed(t.v).gene, Parsed(t.v).alt, t.arg,
                                             outcome)
       IN  summary_tasks' = [summary_tasks EXCEPT ![i].st = "done", ![i].res = res]
    /\ UNCHANGED <<active_variants, include_tavily, include_oncokb, oncokb_token, cache,
                   run, source, pc, fetch_tasks, search_results, displayed, fetcher_calls>>
    /\ UNCHANGED <<qVars, sVars>>

\* lines 320-327 / 347-361: as_completed hands the main thread a finished
\* future; its record is rendered below the earlier ones, or its exception
\* leaves the loop
Render(i) ==
    /\ pc = "summarize"
    /\ i \in 1..Len(summary_tasks)
    /\ summary_tasks[i].st = "done"
    /\ IF summary_tasks[i].res.raised
       THEN /\ pc' = "aborted"
            /\ UNCHANGED <<summary_tasks, displayed>>
       ELSE /\ displayed' = Append(displayed, summary_tasks[i].res)
            /\ summary_tasks' = [summary_tasks EXCEPT ![i].st = "rendered"]
            /\ UNCHANGED pc
    /\ UNCHANGED <<active_variants, include_tavily, include_oncokb, oncokb_token, cache,
                   run, source, fetch_tasks, search_results, fetcher_calls>>
    /\ UNCHANGED <<qVars, sVars>>

\* the loop of line 320 / 347 has no future left
FinishTab ==
    /\ pc = "summarize"
    /\ \A i \in 1..Len(summary_tasks) : summary_tasks[i].st = "rendered"
    /\ pc' = "tab_over"
    /\ UNCHANGED <<active_variants, include_tavily, include_oncokb, oncokb_token, cache,
                   run, source, fetch_tasks, search_results, summary_tasks, displayed,
                   fetcher_calls>>
    /\ UNCHANGED <<qVars, sVars>>

\* line 329: on to the OncoKB tab, or the script ends
NextTab ==
    /\ pc = "tab_over"
    /\ pc' = (IF source = "tavily" THEN "open_oncokb" ELSE "done")
    /\ UNCHANGED <<active_variants, include_tavily, include_oncokb, oncokb_token, cache,
                   run, source, fetch_tasks, search_results, summary_tasks, displayed,
                   fetcher_calls>>
    /\ UNCHANGED <<qVars, sVars>>

Next ==
    \/ StartRun
    \/ \E src \in {"tavily", "oncokb"} : SubmitFetches(src)
    \/ \E i \in 1..MaxVariants + 1, env \in TavilyEnv : RunTavilyFetch(i, env)
    \/ \E i \in 1..MaxVariants + 1, env \in OncokbEnv : RunOncokbFetch(i, env)
    \/ CollectFetches
    \/ \E i \in 1..MaxVariants + 1, outcome \in SummarizeOutcomes : RunProcess(i, outcome)
    \/ \E i \in 1..MaxVariants + 1 : Render(i)
    \/ FinishTab
    \/ NextTab

\* --------------------------------------------------- claims on the search runs

Finished(t) == t.st \in {"done", "rendered"}

DisplayedVariants == [i \in 1..Len(displayed) |-> displayed[i].variant]

Range(seq) == {seq[i] : i \in 1..Len(seq)}

\* the executor's with-block has been left: no task of the batch is still to run
BatchOver ==
    \/ pc = "tab_over" /\ Queried(source)
    \/ pc = "aborted" /\ Pending(fetch_tasks) = {} /\ Pending(summary_tasks) = {}

\* C1: a query fetched in one run of the web-search phase is resolved from the
\* session cache in every later run of the session: fetch_from_tavily_headless
\* is not invoked for it again.
C1_NoRefetch ==
    \A r1, r2 \in 1..Len(fetcher_calls) :
        r1 < r2 => \A q \in TavilyQueries :
                       fetcher_calls[r1][q] > 0 => fetcher_calls[r2][q] = 0

AllPairs == \A i \in 1..Len(active_variants) : FirstSpace(active_variants[i]) > 0

\* C2: each queried source's batch ends with exactly one record per input
\* variant, the records' variants being the input variants, whatever fetch or
\* summarization failed; no failure removes a record or aborts the batch.
\* Stated for inputs that are all "GENE ALTERATION" pairs, which both sources
\* take (line 340 passes any other variant over on the OncoKB tab).
C2_OneRecordPerVariant ==
    (BatchOver /\ AllPairs) =>
        /\ Len(displayed) = Len(active_variants)
        /\ Range(DisplayedVariants) = Range(active_variants)

\* C6: neither fetcher lets an exception out, and each turns a transport error,
\* a non-success status and a malformed body into an error-tagged result.
C6_FetchersTagErrors ==
    \A i \in 1..Len(fetch_tasks) :
        fetch_tasks[i].st = "done" =>
            /\ fetch_tasks[i].res.tag # "raised"
            /\ fetch_tasks[i].res.shape = "error_body" => fetch_tasks[i].res.tag = "error"

\* C7: on the knowledge-base path a payload whose query.variant is "UNKNOWN"
\* gives the summary "Variant not found in OncoKB." with no warnings, and no
\* generation call is made for that variant.
C7_UnknownNotFound ==
    \A i \in 1..Len(summary_tasks) :
        (source = "oncokb" /\ Finished(summary_tasks[i])
            /\ summary_tasks[i].arg.tag = "payload" /\ summary_tasks[i].arg.shape = "unknown")
        => /\ ~summary_tasks[i].res.raised
           /\ summary_tasks[i].res.summary = "Variant not found in OncoKB."
           /\ summary_tasks[i].res.warnings = <<>>
           /\ ~summary_tasks[i].res.gen_called

C7_Witness ==
    \E i \in 1..Len(summary_tasks) :
        /\ source = "oncokb"
        /\ summary_tasks[i].st = "rendered"
        /\ summary_tasks[i].arg.shape = "unknown"
        /\ summary_tasks[i].v = EGFR

\* C9: the records of a batch are displayed in the input order of the variants,
\* however the summarization tasks interleave.
C9_DisplayedInInputOrder ==
    (pc = "tab_over" /\ Queried(source)) => DisplayedVariants = Submitted(source)

\* C10: a variant's summarization task is submitted only once that variant's
\* fetch task is over, and its record is made from the result fetched for that
\* same variant in the same run.
C10_SummaryAfterOwnFetch ==
    \A i \in 1..Len(summary_tasks) :
        LET t == summary_tasks[i]
        IN  /\ i <= Len(fetch_tasks)
            /\ fetch_tasks[i].v = t.v
            /\ fetch_tasks[i].st = "done"
            /\ t.arg.q = RequestOf(source, t.v)
            /\ \E j \in 1..Len(fetch_tasks) :
                   fetch_tasks[j].v = t.v /\ fetch_tasks[j].res = t.arg
            /\ (Finished(t) /\ ~t.res.raised) =>
                   /\ t.res.variant = t.v
                   /\ t.res.content_of = RequestOf(source, t.v)

C10_Witness ==
    /\ Len(summary_tasks) = 2
    /\ summary_tasks[1].v # summary_tasks[2].v
    /\ summary_tasks[2].st = "rendered"
    /\ summary_tasks[2].res.gen_called
    /\ summary_tasks[1].st = "pending"
    /\ run = 2

\* ------------------------------------------------- summarize_with_gemini

\* most models the list-models endpoint returns
MaxModels == 2

\* line 171
preferred_models == <<"gemini-1.5-flash-latest", "gemini-pro">>

ModelNames == {"gemini-1.5-flash-latest", "gemini-pro", "gemini-2.0-flash"}

NoDuplicates(s) == \A i, j \in 1..Len(s) : i # j => s[i] # s[j]

\* what get_available_models can return: distinct model names, [] on failure
AvailableModelLists == {s \in SeqsUpTo(ModelNames, MaxModels) : NoDuplicates(s)}

\* str(e) of an exception raised by generate_content, as a sequence of phrases
ErrorTexts == {<<>>, <<"500">>, <<"404">>, <<"404", "is not found">>}

Texts == {"S", "T"}

\* what one generate_content call does: text, an empty response.text, or a raise
Responses ==
    [kind : {"text"}, text : Texts, err : {<<>>}]
    \cup [kind : {"empty"}, text : {""}, err : {<<>>}]
    \cup [kind : {"exception"}, text : {""}, err : ErrorTexts]

Contains(s, w) == \E i \in 1..Len(s) : s[i] = w

ErrNone == [isNone |-> TRUE, text |-> <<>>]
ErrText(t) == [isNone |-> FALSE, text |-> t]

\* Python truthiness of last_error (None and "" are falsy)
Truthy(e) == ~e.isNone /\ e.text # <<>>

EmptyMessage == <<"Model returned an empty or blocked response.">>

\* line 180 / 195
EmptyWarning(m) == <<"empty", m>>

\* line 184 / 199
FailedWarning(m, err) == <<"failed", m, err>>

\* line 187
NotFoundNotice(m) == <<"not found, trying others", m>>

\* line 185: "404" in last_error and "is not found" in last_error
IsNotFound(err) == Contains(err, "404") /\ Contains(err, "is not found")

\* line 188: [m for m in available_models if m != model_name]
DynamicModels(available, model_name) ==
    LET keep(m) == m # model_name IN SelectSeq(available, keep)

SuccessReturnDropsWarnings(text, warns) ==
    [summary |-> <<text>>, warnings |-> <<>>, error |-> ErrNone]

\* lines 179 and 194
SuccessReturn(text, warns) ==
    [summary |-> <<text>>, warnings |-> warns, error |-> ErrNone]

FinalSummaryNoError(err) == <<"Unable to generate summary.">>

\* lines 202-204
FinalSummary(err) ==
    <<"Unable to generate summary.">>
        \o (IF Truthy(err) THEN <<" Last known error: ">> \o err.text ELSE <<>>)

NotReturned == [summary |-> <<>>, warnings |-> <<>>, error |-> ErrNone]

SIdle ==
    /\ available_models = <<>>
    /\ s_pc = "idle"
    /\ model_idx = 0
    /\ dynamic_models = <<>>
    /\ dynamic_idx = 0
    /\ warnings = <<>>
    /\ last_error = ErrNone
    /\ attempts = <<>>
    /\ summary_out = NotReturned

\* lines 168-172: the call's locals, with the outer loop about to start
SInit ==
    /\ available_models \in AvailableModelLists
    /\ s_pc = "outer"
    /\ model_idx = 1
    /\ dynamic_models = <<>>
    /\ dynamic_idx = 0
    /\ warnings = <<>>
    /\ last_error = ErrNone
    /\ attempts = <<>>
    /\ summary_out = NotReturned

\* lines 174-200: one iteration of the outer loop, the service answering resp
TryPreferred(resp) ==
    /\ s_pc = "outer"
    /\ model_idx <= Len(preferred_models)
    /\ LET model_name == preferred_models[model_idx]
       IN  /\ attempts' = Append(attempts, [model |-> model_name, resp |-> resp])
           /\ CASE resp.kind = "text" ->
                    /\ summary_out' = SuccessReturn(resp.text, warnings)
                    /\ s_pc' = "returned"
                    /\ UNCHANGED <<model_idx, dynamic_models, dynamic_idx, warnings, last_error>>
                [] resp.kind = "empty" ->
                    /\ warnings' = Append(warnings, EmptyWarning(model_name))
                    /\ last_error' = ErrText(EmptyMessage)
                    /\ model_idx' = model_idx + 1
                    /\ UNCHANGED <<s_pc, dynamic_models, dynamic_idx, summary_out>>
                [] resp.kind = "exception" ->
                    /\ last_error' = ErrText(resp.err)
                    /\ IF IsNotFound(resp.err) /\ available_models # <<>>
                       THEN /\ warnings' = warnings \o <<FailedWarning(model_name, resp.err),
                                                          NotFoundNotice(model_name)>>
                            /\ dynamic_models' = DynamicModels(available_models, model_name)
                            /\ dynamic_idx' = 1
                            /\ s_pc' = "dynamic"
                            /\ UNCHANGED model_idx
                       ELSE /\ warnings' = Append(warnings, FailedWarning(model_name, resp.err))
                            /\ model_idx' = model_idx + 1
                            /\ UNCHANGED <<s_pc, dynamic_models, dynamic_idx>>
                    /\ UNCHANGED summary_out
    /\ UNCHANGED available_models
    /\ UNCHANGED <<qVars, oVars>>

\* lines 189-199: one iteration of the inner loop over dynamic_models
TryDynamic(resp) ==
    /\ s_pc = "dynamic"
    /\ dynamic_idx <= Len(dynamic_models)
    /\ LET dynamic_model_name == dynamic_models[dynamic_idx]
       IN  /\ attempts' = Append(attempts, [model |-> dynamic_model_name, resp |-> resp])
           /\ CASE resp.kind = "text" ->
                    /\ summary_out' = SuccessReturn(resp.text, warnings)
                    /\ s_pc' = "returned"
                    /\ UNCHANGED <<dynamic_idx, warnings, last_error>>
                [] resp.kind = "empty" ->
                    /\ warnings' = Append(warnings, EmptyWarning(dynamic_model_name))
                    /\ last_error' = ErrText(EmptyMessage)
                    /\ dynamic_idx' = dynamic_idx + 1
                    /\ UNCHANGED <<s_pc, summary_out>>
                [] resp.kind = "exception" ->
                    /\ last_error' = ErrText(resp.err)
                    /\ warnings' = Append(warnings, FailedWarning(dynamic_model_name, resp.err))
                    /\ dynamic_idx' = dynamic_idx + 1
                    /\ UNCHANGED <<s_pc, summary_out>>
    /\ UNCHANGED <<available_models, model_idx, dynamic_models>>
    /\ UNCHANGED <<qVars, oVars>>

\* the outer loop ran out of models, or the inner loop ended and line 200 broke out
LoopsOver ==
    \/ s_pc = "outer" /\ model_idx > Len(preferred_models)
    \/ s_pc = "dynamic" /\ dynamic_idx > Len(dynamic_models)

\* lines 202-206
ReturnUnable ==
    /\ LoopsOver
    /\ summary_out' = [summary |-> FinalSummary(last_error), warnings |-> warnings,
                       error |-> last_error]
    /\ s_pc' = "returned"
    /\ UNCHANGED <<available_models, model_idx, dynamic_models, dynamic_idx,
                   warnings, last_error, attempts>>
    /\ UNCHANGED <<qVars, oVars>>

SNext ==
    \/ \E resp \in Responses : TryPreferred(resp)
    \/ \E resp \in Responses : TryDynamic(resp)
    \/ ReturnUnable

\* a call of summarize_with_gemini about to enter its loop
InitSummarize == SInit /\ QIdle /\ OIdle

SpecSummarize == InitSummarize /\ [][SNext]_vars

\* the session before the first press of the search button
Init == OInit /\ SIdle

Spec == Init /\ [][Next]_vars

\* requests 2.27 and later: a body that is not JSON raises a RequestException,
\* which both fetchers catch, so no fetch task ends by raising
JsonErrorsCaught == \A i \in 1..Len(fetch_tasks) : fetch_tasks[i].res.tag # "raised"

RunTavilyFetchCaught(i, env) == RunTavilyFetch(i, env) /\ JsonErrorsCaught'

RunOncokbFetchCaught(i, env) == RunOncokbFetch(i, env) /\ JsonErrorsCaught'

NextJsonErrorsCaught ==
    \/ StartRun
    \/ \E src \in {"tavily", "oncokb"} : SubmitFetches(src)
    \/ \E i \in 1..MaxVariants + 1, env \in TavilyEnv : RunTavilyFetchCaught(i, env)
    \/ \E i \in 1..MaxVariants + 1, env \in OncokbEnv : RunOncokbFetchCaught(i, env)
    \/ CollectFetches
    \/ \E i \in 1..MaxVariants + 1, outcome \in SummarizeOutcomes : RunProcess(i, outcome)
    \/ \E i \in 1..MaxVariants + 1 : Render(i)
    \/ FinishTab
    \/ NextTab

SpecJsonErrorsCaught == Init /\ [][NextJsonErrorsCaught]_vars

\* ---------------------------------------- claims on summarize_with_gemini

ModelA == preferred_models[1]
ModelB == preferred_models[2]

Failed(a) == a.resp.kind # "text"

\* the warning one failed attempt leaves (line 180/195 or 184/199)
WarningOf(a) ==
    IF a.resp.kind = "empty" THEN EmptyWarning(a.model)
    ELSE FailedWarning(a.model, a.resp.err)

\* the error one failed attempt leaves in last_error (line 181/196 or 183/198)
ErrorOf(a) ==
    IF a.resp.kind = "empty" THEN ErrText(EmptyMessage) ELSE ErrText(a.resp.err)

AttemptedModels == [i \in 1..Len(attempts) |-> attempts[i].model]

BAlwaysSucceedsWithS ==
    \A i \in 1..Len(attempts) :
        attempts[i].model = ModelB => attempts[i].resp.kind = "text" /\ attempts[i].resp.text = "S"

AAlwaysFails ==
    /\ Len(attempts) >= 1
    /\ \A i \in 1..Len(attempts) : attempts[i].model = ModelA => Failed(attempts[i])

\* A's failure is an unrecognized-model error met with a non-empty dynamic list
\* (read off the error text and the argument, as line 185-186 describe it)
ANotFoundWithDynamicList ==
    /\ attempts[1].resp.kind = "exception"
    /\ \E i, j \in 1..Len(attempts[1].resp.err) :
           attempts[1].resp.err[i] = "404" /\ attempts[1].resp.err[j] = "is not found"
    /\ Len(available_models) > 0

FallbackToB ==
    /\ summary_out.summary = <<"S">>
    /\ summary_out.warnings = <<WarningOf(attempts[1])>>
    /\ AttemptedModels = <<ModelA, ModelB>>

IsNotice(w) == w[1] = "not found, trying others"

\* the dynamic models other than A, tried in place of B: a notice follows A's
\* failure message, and the models attempted after A are the first of them
NoticeAndDynamicList ==
    LET notA(m) == m # ModelA
        others == SelectSeq(available_models, notA)
    IN  /\ Len(summary_out.warnings) >= 2
        /\ summary_out.warnings[1] = WarningOf(attempts[1])
        /\ IsNotice(summary_out.warnings[2])
        /\ \E k \in 0..Len(others) : Tail(AttemptedModels) = SubSeq(others, 1, k)

AllAttemptsFailed ==
    /\ Len(attempts) >= 1
    /\ \A i \in 1..Len(attempts) : Failed(attempts[i])

\* C4 as stated: when every attempted model fails or returns an empty/blocked
\* response, the summary signals total failure and carries the last observed
\* error, and warnings has exactly one entry per attempted model, in attempt
\* order, also when an unrecognized-model error brings in the dynamic list.
C4_OneWarningPerAttempt ==
    (s_pc = "returned" /\ AllAttemptsFailed) =>
        /\ summary_out.summary =
               <<"Unable to generate summary.", " Last known error: ">>
                   \o ErrorOf(attempts[Len(attempts)]).text
        /\ summary_out.warnings = [i \in 1..Len(attempts) |-> WarningOf(attempts[i])]

IsAttemptWarning(w) == ~IsNotice(w)

\* C4 amended: when every attempted model fails, the summary signals total
\* failure and carries the last observed error unless that error's text is
\* empty; warnings has one entry per attempted model, in attempt order, plus,
\* when an unrecognized-model error brought in the dynamic list, one notice
\* right after the entry of the model that was not found.
C4_OneWarningPerAttempt_Amended ==
    (s_pc = "returned" /\ AllAttemptsFailed) =>
        LET last == ErrorOf(attempts[Len(attempts)])
            w == summary_out.warnings
            notices == {i \in 1..Len(w) : IsNotice(w[i])}
        IN  /\ summary_out.summary =
                   <<"Unable to generate summary.">>
                       \o (IF last.text # <<>> THEN <<" Last known error: ">> \o last.text
                           ELSE <<>>)
            /\ summary_out.error = last
            /\ SelectSeq(w, IsAttemptWarning) = [i \in 1..Len(attempts) |-> WarningOf(attempts[i])]
            /\ Cardinality(notices) = (IF dynamic_idx > 0 THEN 1 ELSE 0)
            /\ \A i \in notices :
                   /\ i > 1
                   /\ w[i - 1] = FailedWarning(w[i][2], <<"404", "is not found">>)
                   /\ w[i][2] \in {ModelA, ModelB}

C4_Witness ==
    /\ s_pc = "returned"
    /\ AllAttemptsFailed
    /\ dynamic_idx > 0
    /\ Len(attempts) >= 3
    /\ Len(summary_out.warnings) = Len(attempts) + 1

\* C8: within one call no model identifier is invoked more than once: the
\* dynamic models attempted exclude every model already tried in the call.
C8_NoModelTwice ==
    \A i, j \in 1..Len(attempts) : i # j => attempts[i].model # attempts[j].model

QNext == BuildTavilyQuery \/ BuildPerplexityQuery

\* the inputs of one query construction
InitQuery == QInit /\ SIdle /\ OIdle

SpecQuery == InitQuery /\ [][QNext]_vars

\* C5: the query sent to a source is the substituted template when the tumor
\* type is blank after trimming and that string followed by " in <tumor type>"
\* otherwise, at both places a query is built, with nothing before or after.
ExpectedQuery ==
    LET base == Format(query_template, Strip(variant_input))
        tumor == Strip(tumor_input)
    IN  IF tumor = <<>> THEN base ELSE base \o <<" ", "i", "n", " ">> \o tumor

C5_QueryExact ==
    /\ tavily_query # None => tavily_query = ExpectedQuery
    /\ perplexity_query # None => perplexity_query = ExpectedQuery

====
